---- MODULE Spec2Model ----
(***************************************************************************)
(* Model of the Processor node of easy_perception_deployment               *)
(* (include/epd_utils_lib/processor.hpp).                                  *)
(*                                                                         *)
(* State: the configuration and Session State held by ortAgent_            *)
(* (EPD::EPDContainer), the subscriptions made by the constructor, and a   *)
(* record of the callback invocation that ran last: the route, the input,  *)
(* how the callback ended, the calls it made on ortAgent_ (in program      *)
(* order) and the messages it published (in program order).                *)
(*                                                                         *)
(* Each callback is one atomic action (callbacks run to completion).       *)
(* Image decoding (cv_bridge::toCvCopy) is modelled by the one thing the   *)
(* callbacks read from its result, the column and row counts.              *)
(* An exception leaves the callback; what its caller (the executor, main)  *)
(* does with it is outside processor.hpp, so the model lets further        *)
(* callbacks be delivered afterwards.                                      *)
(***************************************************************************)
EXTENDS Integers, Sequences, FiniteSets, TLC

\* ------------------------------------------------------------------ bounds
\* How many times engine construction may fail in one run.
MaxInitFail == 1

\* --------------------------------------------------------------- constants
\* The use-case mode that designates localization (processor.hpp:145).
LocalizationMode == 3

\* Use-case modes the configuration may hold: the localization mode and its
\* two neighbours.
UseCaseModes == (LocalizationMode - 1)..(LocalizationMode + 1)
\* Precision tiers (the cases of the switch in image_callback).
PrecisionLevels == 1..3

\* ------------------------------------------------------------------ inputs
\* Frame widths and heights delivered: none, and two camera settings. The
\* callbacks only compare dimensions for equality, so two non-zero values of
\* each give every case (same, width differs, height differs, both differ).
Widths == {0, 640, 1280}
Heights == {0, 480, 720}
\* sensor_msgs::msg::Image as far as the callbacks read it. A frame with
\* rows has columns; an empty frame (height 0) may declare any width.
Images ==
  {m \in [width : Widths, height : Heights] : m.height = 0 \/ m.width > 0}
\* The depth image and calibration record of a synchronized tuple.
AuxPairs ==
  { [depth_msg |-> "depth_a", camera_info |-> "info_a"],
    [depth_msg |-> "depth_b", camera_info |-> "info_b"] }
NoAux == "none"

\* Values the external inference capabilities may return.
LabelLists == {<<>>, <<"cat">>, <<"dog", "cat">>}
ResultImgs == {"annotated_a", "annotated_b"}
\* One detection of an EPD::EPDObjectDetection: class index, score (percent),
\* corner box <<x1, y1, x2, y2>> and mask.
DetA == [classIndex |-> 0, score |-> 90, bbox |-> <<10, 20, 50, 80>>, mask |-> "mask_a"]
DetB == [classIndex |-> 1, score |-> 55, bbox |-> <<0, 0, 3, 2>>, mask |-> "mask_b"]
\* EPD::EPDObjectDetection: data_size with its parallel arrays.
DetectionResult(ds) ==
  [ data_size    |-> Len(ds),
    classIndices |-> [i \in 1..Len(ds) |-> ds[i].classIndex],
    scores       |-> [i \in 1..Len(ds) |-> ds[i].score],
    bboxes       |-> [i \in 1..Len(ds) |-> ds[i].bbox],
    masks        |-> [i \in 1..Len(ds) |-> ds[i].mask] ]
DetectionResults == {DetectionResult(ds) : ds \in {<<>>, <<DetA>>, <<DetB, DetA>>}}
\* One object of an EPD::EPDObjectLocalization.
ObjA ==
  [ name |-> "cup", pos |-> <<1, 2, 3>>, roi |-> <<10, 20, 40, 60>>,
    breadth |-> 4, length |-> 5, height |-> 6 ]
ObjB ==
  [ name |-> "pen", pos |-> <<0, 0, 1>>, roi |-> <<0, 0, 3, 2>>,
    breadth |-> 1, length |-> 7, height |-> 1 ]
LocalizationResult(os) == [data_size |-> Len(os), objects |-> os]
LocalizationResults ==
  {LocalizationResult(os) : os \in {<<>>, <<ObjA>>, <<ObjB, ObjA>>}}
\* Elapsed times (ms) the clock may measure around one inference call.
ElapsedTimes == {0, 40}

\* ------------------------------------------------------------------- state
VARIABLES
  useCaseMode,          \* ortAgent_.useCaseMode
  precision_level,      \* ortAgent_.precision_level
  visualize,            \* ortAgent_.isVisualize()
  initialized,          \* ortAgent_.isInit()
  width, height,        \* ortAgent_.getWidth(), ortAgent_.getHeight()
  image_sub,            \* image_callback is subscribed
  localize_subscribed,  \* the three message_filters subscribers are subscribed
  sync_registered,      \* localize_callback is registered with sync_
  route,                \* which callback ran last: "none", "image", "localize"
  input,                \* its arguments
  outcome,              \* "idle", "discarded", "threw", "returned"
  raised,               \* the failure an ortAgent_ call raised in it, or "none"
  thrown,               \* the exception that left it, or "none"
  calls,                \* the ortAgent_ calls it made, in order
  out,                  \* the messages it published, in order
  inferResult,          \* what its inference call returned, or "none"
  initAttempts,         \* initORTSessionHandler calls so far
  initFail,             \* of these, how many raised
  initDone,             \* setInitBoolean(true) calls so far
  firstW, firstH,       \* dimensions of the first non-empty frame delivered
  allSame,              \* all non-empty frames delivered so far agree with it
  pc,                   \* interleaved execution: where each callback stands
  local,                \* interleaved execution: each callback's frame and calls
  delivered             \* interleaved execution: callbacks started on each route

config == <<useCaseMode, precision_level, visualize>>
session == <<initialized, width, height>>
subs == <<image_sub, localize_subscribed, sync_registered>>
last == <<route, input, outcome, raised, thrown, calls, out, inferResult>>
hist == <<initAttempts, initFail, initDone, firstW, firstH, allSame>>
conc == <<pc, local, delivered>>
vars == <<config, session, subs, last, hist, conc>>

\* ------------------------------------------------------------- vocabulary
\* Output channels (the five publishers).
Channels == {"visual_pub", "p1_pub", "p2_pub", "p3_pub", "localize_pub"}
\* Inference capabilities, named session.method/arity as the callbacks call them.
Capabilities ==
  { "p1.infer/1", "p2.infer_visualize/1", "p2.infer_action/1",
    "p3.infer_visualize/1", "p3.infer_action/1",
    "p3.infer_visualize/3", "p3.infer_action/3" }
\* Failures and exceptions.
NoError == "none"
RuntimeError == "std::runtime_error: Input camera changed. Please restart."
ConstructionFailure == "failure raised by initORTSessionHandler"
InferenceFailure == "failure raised by the inference call"

Count(s, x) == Cardinality({i \in DOMAIN s : s[i] = x})
InferCalls == SelectSeq(calls, LAMBDA c : c \in Capabilities)
ChannelsOf(msgs) == {msgs[i].chan : i \in DOMAIN msgs}

\* ------------------------------------------------- EPD::EPDContainer (ortAgent_)
isInit == initialized
getWidth == width
getHeight == height
\* setFrameDimension(w, h): the locked dimensions it leaves.
setFrameDimension(w, h) == [width |-> w, height |-> h]

\* ------------------------------------------------------------ constructor
\* Processor::Processor: image_sub is created unconditionally; the three
\* message_filters subscribers subscribe in the initializer list; the
\* synchronizer callback is registered only in localization mode.
Processor(mode) ==
  [ image_sub           |-> TRUE,
    localize_subscribed |-> TRUE,
    sync_registered     |-> (mode = LocalizationMode) ]

\* ---------------------------------------------------------------- helpers
\* Faulty variant of EmptyFrame: the guard is missing.
EmptyFrame_Never(msg) == FALSE

\* Faulty variant of EmptyFrame: the guard reads the wrong field.
EmptyFrame_Width(msg) == msg.width = 0

\* The empty-frame guard of both callbacks.
EmptyFrame(msg) == msg.height = 0

\* cv_bridge::toCvCopy(msg, "bgr8")->image, as far as the callbacks read it.
toCvCopy(msg) == [cols |-> msg.width, rows |-> msg.height]

\* The dimension check of both callbacks (identical text in each).
DimensionChanged(cols, rows) == getWidth # cols /\ getHeight # rows

\* Whether engine construction may raise in this step: only while a
\* construction is due, and MaxInitFail times at most.
InitOutcomes ==
  IF ~isInit /\ initFail < MaxInitFail THEN BOOLEAN ELSE {TRUE}

\* Faulty variant of SessionStep: the initialization branch omits
\* setInitBoolean(true).
SessionStep_NoSetInit(img, init_ok) ==
  IF ~isInit
  THEN LET d == setFrameDimension(img.cols, img.rows) IN
       [ initialized |-> initialized, width |-> d.width, height |-> d.height,
         raised |-> IF init_ok THEN NoError ELSE ConstructionFailure,
         thrown |-> IF init_ok THEN NoError ELSE ConstructionFailure,
         calls |-> <<"setFrameDimension", "initORTSessionHandler">> ]
  ELSE [ initialized |-> initialized, width |-> width, height |-> height,
         raised |-> NoError,
         thrown |-> IF DimensionChanged(img.cols, img.rows)
                    THEN RuntimeError ELSE NoError,
         calls |-> <<>> ]

\* Faulty variant of SessionStep: a changed frame makes the block construct
\* the engine once more before it throws.
SessionStep_RetryThenThrow(img, init_ok) ==
  IF ~isInit
  THEN LET d == setFrameDimension(img.cols, img.rows) IN
       IF init_ok
       THEN [ initialized |-> TRUE, width |-> d.width, height |-> d.height,
              raised |-> NoError, thrown |-> NoError,
              calls |-> <<"setFrameDimension", "initORTSessionHandler",
                          "setInitBoolean">> ]
       ELSE [ initialized |-> initialized, width |-> d.width, height |-> d.height,
              raised |-> ConstructionFailure, thrown |-> ConstructionFailure,
              calls |-> <<"setFrameDimension", "initORTSessionHandler">> ]
  ELSE IF DimensionChanged(img.cols, img.rows)
       THEN [ initialized |-> initialized, width |-> width, height |-> height,
              raised |-> NoError, thrown |-> RuntimeError,
              calls |-> <<"initORTSessionHandler">> ]
       ELSE [ initialized |-> initialized, width |-> width, height |-> height,
              raised |-> NoError, thrown |-> NoError, calls |-> <<>> ]

\* Faulty variant of SessionStep: a changed frame is written into the
\* locked dimensions before the block throws.
SessionStep_ResizeThenThrow(img, init_ok) ==
  IF ~isInit
  THEN LET d == setFrameDimension(img.cols, img.rows) IN
       IF init_ok
       THEN [ initialized |-> TRUE, width |-> d.width, height |-> d.height,
              raised |-> NoError, thrown |-> NoError,
              calls |-> <<"setFrameDimension", "initORTSessionHandler",
                          "setInitBoolean">> ]
       ELSE [ initialized |-> initialized, width |-> d.width, height |-> d.height,
              raised |-> ConstructionFailure, thrown |-> ConstructionFailure,
              calls |-> <<"setFrameDimension", "initORTSessionHandler">> ]
  ELSE IF DimensionChanged(img.cols, img.rows)
       THEN LET d == setFrameDimension(img.cols, img.rows) IN
            [ initialized |-> initialized, width |-> d.width, height |-> d.height,
              raised |-> NoError, thrown |-> RuntimeError, calls |-> <<>> ]
       ELSE [ initialized |-> initialized, width |-> width, height |-> height,
              raised |-> NoError, thrown |-> NoError, calls |-> <<>> ]

\* Faulty variant of SessionStep: setInitBoolean(true) is called before
\* initORTSessionHandler, so a failed construction leaves the flag set.
SessionStep_InitFlagFirst(img, init_ok) ==
  IF ~isInit
  THEN LET d == setFrameDimension(img.cols, img.rows) IN
       IF init_ok
       THEN [ initialized |-> TRUE, width |-> d.width, height |-> d.height,
              raised |-> NoError, thrown |-> NoError,
              calls |-> <<"setFrameDimension", "setInitBoolean",
                          "initORTSessionHandler">> ]
       ELSE [ initialized |-> TRUE, width |-> d.width, height |-> d.height,
              raised |-> ConstructionFailure, thrown |-> ConstructionFailure,
              calls |-> <<"setFrameDimension", "setInitBoolean",
                          "initORTSessionHandler">> ]
  ELSE [ initialized |-> initialized, width |-> width, height |-> height,
         raised |-> NoError,
         thrown |-> IF DimensionChanged(img.cols, img.rows)
                    THEN RuntimeError ELSE NoError,
         calls |-> <<>> ]

\* Faulty variant of SessionStep: a changed frame re-locks the dimensions
\* (the reinitialization the TODO defers) instead of throwing.
SessionStep_Reinit(img, init_ok) ==
  IF ~isInit \/ DimensionChanged(img.cols, img.rows)
  THEN LET d == setFrameDimension(img.cols, img.rows) IN
       IF init_ok
       THEN [ initialized |-> TRUE, width |-> d.width, height |-> d.height,
              raised |-> NoError, thrown |-> NoError,
              calls |-> <<"setFrameDimension", "initORTSessionHandler",
                          "setInitBoolean">> ]
       ELSE [ initialized |-> initialized, width |-> d.width, height |-> d.height,
              raised |-> ConstructionFailure, thrown |-> ConstructionFailure,
              calls |-> <<"setFrameDimension", "initORTSessionHandler">> ]
  ELSE [ initialized |-> initialized, width |-> width, height |-> height,
         raised |-> NoError, thrown |-> NoError, calls |-> <<>> ]

\* The initialization / dimension-check block of both callbacks (identical
\* text in each): the Session State it leaves, the ortAgent_ calls it made,
\* and the exception that left it. init_ok: initORTSessionHandler returned.
SessionStep(img, init_ok) ==
  IF ~isInit
  THEN LET d == setFrameDimension(img.cols, img.rows) IN
       IF init_ok
       THEN [ initialized |-> TRUE, width |-> d.width, height |-> d.height,
              raised |-> NoError, thrown |-> NoError,
              calls |-> <<"setFrameDimension", "initORTSessionHandler",
                          "setInitBoolean">> ]
       ELSE [ initialized |-> initialized, width |-> d.width, height |-> d.height,
              raised |-> ConstructionFailure, thrown |-> ConstructionFailure,
              calls |-> <<"setFrameDimension", "initORTSessionHandler">> ]
  ELSE [ initialized |-> initialized, width |-> width, height |-> height,
         raised |-> NoError,
         thrown |-> IF DimensionChanged(img.cols, img.rows)
                    THEN RuntimeError ELSE NoError,
         calls |-> <<>> ]

\* What an inference capability may return.
Returns(cap) ==
  CASE cap = "p1.infer/1" -> LabelLists
    [] cap \in {"p2.infer_visualize/1", "p3.infer_visualize/1",
                "p3.infer_visualize/3"} -> ResultImgs
    [] cap \in {"p2.infer_action/1", "p3.infer_action/1"} -> DetectionResults
    [] cap = "p3.infer_action/3" -> LocalizationResults
    [] OTHER -> {}

\* cv_bridge::CvImage(Header(), encoding, mat).toImageMsg()
toImageMsg(encoding, mat) == [encoding |-> encoding, image |-> mat]

\* The message published on visual_pub.
VisualMsg(resultImg) ==
  [chan |-> "visual_pub", image |-> toImageMsg("bgr8", resultImg)]

\* Faulty variant of RegionOfInterest: the far corner is copied into width
\* and height without subtracting the near corner.
RegionOfInterest_Corners(bbox) ==
  [ x_offset   |-> bbox[1],
    y_offset   |-> bbox[2],
    width      |-> bbox[3],
    height     |-> bbox[4],
    do_rectify |-> FALSE ]

\* sensor_msgs::msg::RegionOfInterest built from a corner box.
RegionOfInterest(bbox) ==
  [ x_offset   |-> bbox[1],
    y_offset   |-> bbox[2],
    width      |-> bbox[3] - bbox[1],
    height     |-> bbox[4] - bbox[2],
    do_rectify |-> FALSE ]

\* Faulty variant of Dispatch: the failure of the inference call is caught
\* and the callback returns normally.
Dispatch_Swallow(infer_ok, msgs) ==
  IF infer_ok
  THEN [outcome |-> "returned", raised |-> NoError, thrown |-> NoError, out |-> msgs]
  ELSE [ outcome |-> "returned", raised |-> InferenceFailure,
         thrown |-> NoError, out |-> <<>> ]

\* The inference call a statement sequence "infer, then publish msgs" ends
\* in: nothing in either callback catches, and every publish follows its
\* inference call.
Dispatch(infer_ok, msgs) ==
  IF infer_ok
  THEN [outcome |-> "returned", raised |-> NoError, thrown |-> NoError, out |-> msgs]
  ELSE [ outcome |-> "threw", raised |-> InferenceFailure,
         thrown |-> InferenceFailure, out |-> <<>> ]

\* ------------------------------------------------- single-stream dispatch
\* The capability the switch on precision_level invokes.
ImageCapability(level, vis) ==
  CASE level = 1 -> "p1.infer/1"
    [] level = 2 -> IF vis THEN "p2.infer_visualize/1" ELSE "p2.infer_action/1"
    [] level = 3 -> IF vis THEN "p3.infer_visualize/1" ELSE "p3.infer_action/1"
    [] OTHER -> "none"

\* EPDObjectDetection message of tier 2: one entry per detection, no masks.
P2Msg(result) ==
  [ chan          |-> "p2_pub",
    class_indices |-> [i \in 1..result.data_size |-> result.classIndices[i]],
    scores        |-> [i \in 1..result.data_size |-> result.scores[i]],
    bboxes        |-> [i \in 1..result.data_size |-> RegionOfInterest(result.bboxes[i])],
    masks         |-> <<>> ]

\* Faulty variant of P3Msg: the mask is pushed after the loop instead of
\* inside it, so at most one mask goes out.
P3Msg_MaskOnce(result) ==
  [ chan          |-> "p3_pub",
    class_indices |-> [i \in 1..result.data_size |-> result.classIndices[i]],
    scores        |-> [i \in 1..result.data_size |-> result.scores[i]],
    bboxes        |-> [i \in 1..result.data_size |-> RegionOfInterest(result.bboxes[i])],
    masks         |-> IF result.data_size = 0 THEN <<>>
                      ELSE <<toImageMsg("32FC1", result.masks[result.data_size])>> ]

\* EPDObjectDetection message of tier 3: as tier 2, plus one mask per detection.
P3Msg(result) ==
  [ chan          |-> "p3_pub",
    class_indices |-> [i \in 1..result.data_size |-> result.classIndices[i]],
    scores        |-> [i \in 1..result.data_size |-> result.scores[i]],
    bboxes        |-> [i \in 1..result.data_size |-> RegionOfInterest(result.bboxes[i])],
    masks         |-> [i \in 1..result.data_size |-> toImageMsg("32FC1", result.masks[i])] ]

\* Faulty variant of ImagePublish: case 3 publishes the tier-2 message
\* (copied from case 2).
ImagePublish_WrongTopic(level, vis, ret) ==
  CASE level = 1 -> <<[chan |-> "p1_pub", object_names |-> ret]>>
    [] level = 2 -> IF vis THEN <<VisualMsg(ret)>> ELSE <<P2Msg(ret)>>
    [] level = 3 -> IF vis THEN <<VisualMsg(ret)>> ELSE <<P2Msg(ret)>>
    [] OTHER -> <<>>

\* Faulty variant of ImagePublish: case 1 honours the visualize flag.
ImagePublish_Tier1Visualize(level, vis, ret) ==
  CASE level = 1 -> IF vis THEN <<VisualMsg(ret)>>
                    ELSE <<[chan |-> "p1_pub", object_names |-> ret]>>
    [] level = 2 -> IF vis THEN <<VisualMsg(ret)>> ELSE <<P2Msg(ret)>>
    [] level = 3 -> IF vis THEN <<VisualMsg(ret)>> ELSE <<P3Msg(ret)>>
    [] OTHER -> <<>>

\* Faulty variant of ImagePublish: case 2 lacks its break and falls through
\* into case 3.
ImagePublish_Fallthrough(level, vis, ret) ==
  CASE level = 1 -> <<[chan |-> "p1_pub", object_names |-> ret]>>
    [] level = 2 -> IF vis THEN <<VisualMsg(ret), VisualMsg(ret)>>
                    ELSE <<P2Msg(ret), P3Msg(ret)>>
    [] level = 3 -> IF vis THEN <<VisualMsg(ret)>> ELSE <<P3Msg(ret)>>
    [] OTHER -> <<>>

\* The messages the switch on precision_level publishes once its inference
\* call has returned ret.
ImagePublish(level, vis, ret) ==
  CASE level = 1 -> <<[chan |-> "p1_pub", object_names |-> ret]>>
    [] level = 2 -> IF vis THEN <<VisualMsg(ret)>> ELSE <<P2Msg(ret)>>
    [] level = 3 -> IF vis THEN <<VisualMsg(ret)>> ELSE <<P3Msg(ret)>>
    [] OTHER -> <<>>

\* ------------------------------------------------- multi-stream dispatch
\* The capability localize_callback invokes.
LocalizeCapability(vis) ==
  IF vis THEN "p3.infer_visualize/3" ELSE "p3.infer_action/3"

\* Faulty variant of LocalizeMsg: the frame dimensions are read back from
\* ortAgent_ (the dimensions locked by the first frame) instead of img.
LocalizeMsg_LockedDims(img, depth_msg, camera_info, result, elapsed) ==
  [ chan         |-> "localize_pub",
    frame_width  |-> getWidth,
    frame_height |-> getHeight,
    depth_image  |-> depth_msg,
    camera_info  |-> camera_info,
    num_objects  |-> result.data_size,
    objects      |-> [i \in 1..result.data_size |-> result.objects[i]],
    roi_array    |-> [i \in 1..result.data_size |-> result.objects[i].roi],
    process_time |-> elapsed ]

\* Faulty variant of LocalizeMsg: the record goes out on the tier-3 publisher.
LocalizeMsg_WrongTopic(img, depth_msg, camera_info, result, elapsed) ==
  [ chan         |-> "p3_pub",
    frame_width  |-> img.cols,
    frame_height |-> img.rows,
    depth_image  |-> depth_msg,
    camera_info  |-> camera_info,
    num_objects  |-> result.data_size,
    objects      |-> [i \in 1..result.data_size |-> result.objects[i]],
    roi_array    |-> [i \in 1..result.data_size |-> result.objects[i].roi],
    process_time |-> elapsed ]

\* EPDObjectLocalization message.
LocalizeMsg(img, depth_msg, camera_info, result, elapsed) ==
  [ chan         |-> "localize_pub",
    frame_width  |-> img.cols,
    frame_height |-> img.rows,
    depth_image  |-> depth_msg,
    camera_info  |-> camera_info,
    num_objects  |-> result.data_size,
    objects      |-> [i \in 1..result.data_size |-> result.objects[i]],
    roi_array    |-> [i \in 1..result.data_size |-> result.objects[i].roi],
    process_time |-> elapsed ]

\* The messages localize_callback publishes once its inference call has
\* returned ret.
LocalizePublish(vis, img, depth_msg, camera_info, ret, elapsed) ==
  IF vis THEN <<VisualMsg(ret)>>
  ELSE <<LocalizeMsg(img, depth_msg, camera_info, ret, elapsed)>>

\* ---------------------------------------------------------------- actions
\* The end of a callback invocation: Session State as the callback left it,
\* the record of the invocation, and the running counts.
Complete(r, in, s, oc, rz, th, cs, msgs, res) ==
  /\ route' = r
  /\ input' = in
  /\ initialized' = s.initialized
  /\ width' = s.width
  /\ height' = s.height
  /\ outcome' = oc
  /\ raised' = rz
  /\ thrown' = th
  /\ calls' = cs
  /\ out' = msgs
  /\ inferResult' = res
  /\ initAttempts' = initAttempts + Count(cs, "initORTSessionHandler")
  /\ initFail' = initFail + (IF rz = ConstructionFailure THEN 1 ELSE 0)
  /\ initDone' = initDone + Count(cs, "setInitBoolean")
  /\ IF in.msg.height # 0 /\ firstH = 0
     THEN firstW' = in.msg.width /\ firstH' = in.msg.height /\ allSame' = allSame
     ELSE /\ UNCHANGED <<firstW, firstH>>
          /\ allSame' = (allSame /\ (in.msg.height = 0
                                     \/ (in.msg.width = firstW /\ in.msg.height = firstH)))
  /\ UNCHANGED <<config, subs, conc>>

\* Session State as it stands (a callback that leaves it alone).
Session == [initialized |-> initialized, width |-> width, height |-> height]

\* Processor::image_callback, delivered one frame.
image_callback ==
  /\ image_sub
  /\ \E msg \in Images :
       LET in == [msg |-> msg, depth_msg |-> NoAux, camera_info |-> NoAux] IN
       IF EmptyFrame(msg)
       THEN Complete("image", in, Session, "discarded", NoError, NoError, <<>>, <<>>,
                     NoError)
       ELSE \E init_ok \in InitOutcomes :
              LET img == toCvCopy(msg)
                  s == SessionStep(img, init_ok)
                  cap == ImageCapability(precision_level, visualize)
              IN IF s.thrown # NoError
                 THEN Complete("image", in, s, "threw", s.raised, s.thrown, s.calls, <<>>,
                               NoError)
                 ELSE \E infer_ok \in BOOLEAN :
                        \E ret \in (IF infer_ok THEN Returns(cap) ELSE {NoError}) :
                          LET d == Dispatch(infer_ok,
                                     ImagePublish(precision_level, visualize, ret))
                          IN Complete("image", in, s, d.outcome, d.raised, d.thrown,
                                      s.calls \o <<cap>>, d.out, ret)

\* Processor::localize_callback, delivered one synchronized tuple.
localize_callback ==
  /\ sync_registered
  /\ \E msg \in Images, aux \in AuxPairs :
       LET depth_msg == aux.depth_msg
           camera_info == aux.camera_info
           in == [msg |-> msg, depth_msg |-> depth_msg, camera_info |-> camera_info]
       IN
       IF EmptyFrame(msg)
       THEN Complete("localize", in, Session, "discarded", NoError, NoError, <<>>, <<>>,
                     NoError)
       ELSE \E init_ok \in InitOutcomes :
              LET img == toCvCopy(msg)
                  s == SessionStep(img, init_ok)
                  cap == LocalizeCapability(visualize)
              IN IF s.thrown # NoError
                 THEN Complete("localize", in, s, "threw", s.raised, s.thrown, s.calls, <<>>,
                               NoError)
                 ELSE \E infer_ok \in BOOLEAN :
                        \E ret \in (IF infer_ok THEN Returns(cap) ELSE {NoError}),
                           elapsed \in (IF infer_ok /\ ~visualize
                                        THEN ElapsedTimes ELSE {0}) :
                          LET d == Dispatch(infer_ok,
                                     LocalizePublish(visualize, img, depth_msg,
                                                     camera_info, ret, elapsed))
                          IN Complete("localize", in, s, d.outcome, d.raised, d.thrown,
                                      s.calls \o <<cap>>, d.out, ret)

\* The routes, as threads of an executor that runs callbacks concurrently.
Routes == {"image", "localize"}
\* A callback's frame and ortAgent_ calls before it has received a frame.
NoLocal ==
  [ in |-> [msg |-> [width |-> 0, height |-> 0], depth_msg |-> NoAux,
            camera_info |-> NoAux],
    calls |-> <<>> ]

\* ---------------------------------------------------------- specification
\* The node after construction: the configuration ortAgent_ loaded, Session
\* State not yet initialized, the subscriptions the constructor made, and no
\* callback delivered yet.
Init ==
  /\ useCaseMode \in UseCaseModes
  /\ precision_level \in PrecisionLevels
  /\ visualize \in BOOLEAN
  /\ initialized = FALSE
  /\ width = 0
  /\ height = 0
  /\ image_sub = Processor(useCaseMode).image_sub
  /\ localize_subscribed = Processor(useCaseMode).localize_subscribed
  /\ sync_registered = Processor(useCaseMode).sync_registered
  /\ route = "none"
  /\ input = [msg |-> [width |-> 0, height |-> 0], depth_msg |-> NoAux, camera_info |-> NoAux]
  /\ outcome = "idle"
  /\ raised = NoError
  /\ thrown = NoError
  /\ calls = <<>>
  /\ out = <<>>
  /\ inferResult = NoError
  /\ initAttempts = 0
  /\ initFail = 0
  /\ initDone = 0
  /\ firstW = 0
  /\ firstH = 0
  /\ allSame = TRUE
  /\ pc = [t \in Routes |-> "idle"]
  /\ local = [t \in Routes |-> NoLocal]
  /\ delivered = [t \in Routes |-> 0]

Next == image_callback \/ localize_callback

Spec == Init /\ [][Next]_vars

\* ------------------------------------------- callbacks under their caller
\* The caller of the callbacks (the executor spinning the node, and the
\* main that owns it) is outside processor.hpp. As the design states it, the
\* fatal dimension-change error is unrecoverable: once a callback has thrown
\* it, the caller delivers nothing more.
Halted == thrown = RuntimeError

spin_image == ~Halted /\ image_callback

spin_localize == ~Halted /\ localize_callback

NextHalt == spin_image \/ spin_localize

SpecHalt == Init /\ [][NextHalt]_vars

\* -------------------------------------------- callbacks run concurrently
\* The two callbacks on two threads of a multi-threaded executor, each a
\* sequence of steps at the grain of its reads and writes of ortAgent_.
\* A callback is not re-entered on its own route. Nothing in either
\* callback takes a lock.
MaxDeliveries == 1

Active(t) == IF t = "image" THEN image_sub ELSE sync_registered

\* The record of a callback that has come to its end.
Finish(t, oc, rz, th, cs, msgs, res) ==
  /\ pc' = [pc EXCEPT ![t] = "idle"]
  /\ route' = t
  /\ input' = local[t].in
  /\ outcome' = oc
  /\ raised' = rz
  /\ thrown' = th
  /\ calls' = cs
  /\ out' = msgs
  /\ inferResult' = res
  /\ UNCHANGED <<config, subs, local, delivered, firstW, firstH, allSame>>

\* A step inside a callback: only its position (and its own calls) move.
Goto(t, label, cs) ==
  /\ pc' = [pc EXCEPT ![t] = label]
  /\ local' = [local EXCEPT ![t].calls = cs]
  /\ UNCHANGED <<config, subs, last, delivered, firstW, firstH, allSame>>

\* The callback is entered with its arguments and passes the empty guard
\* (or returns at it).
c_begin(t) ==
  /\ Active(t)
  /\ pc[t] = "idle"
  /\ delivered[t] < MaxDeliveries
  /\ \E msg \in Images, aux \in (IF t = "image"
                                   THEN {[depth_msg |-> NoAux, camera_info |-> NoAux]}
                                   ELSE AuxPairs) :
       LET in == [ msg |-> msg, depth_msg |-> aux.depth_msg,
                   camera_info |-> aux.camera_info ]
       IN
       /\ delivered' = [delivered EXCEPT ![t] = @ + 1]
       /\ IF EmptyFrame(msg)
          THEN /\ route' = t
               /\ input' = in
               /\ outcome' = "discarded"
               /\ raised' = NoError
               /\ thrown' = NoError
               /\ calls' = <<>>
               /\ out' = <<>>
               /\ inferResult' = NoError
               /\ allSame' = allSame
               /\ UNCHANGED <<pc, local, firstW, firstH>>
          ELSE /\ pc' = [pc EXCEPT ![t] = "check"]
               /\ local' = [local EXCEPT ![t] = [in |-> in, calls |-> <<>>]]
               /\ IF firstH = 0
                  THEN firstW' = msg.width /\ firstH' = msg.height /\ allSame' = allSame
                  ELSE /\ UNCHANGED <<firstW, firstH>>
                       /\ allSame' = (allSame /\ msg.width = firstW
                                              /\ msg.height = firstH)
               /\ UNCHANGED last
  /\ UNCHANGED <<config, subs, session, initAttempts, initFail, initDone>>

\* if (!ortAgent_.isInit())
c_check(t) ==
  /\ pc[t] = "check"
  /\ Goto(t, IF ~isInit THEN "setdim" ELSE "checkdim", local[t].calls)
  /\ UNCHANGED <<session, initAttempts, initFail, initDone>>

\* ortAgent_.setFrameDimension(img.cols, img.rows)
c_setdim(t) ==
  /\ pc[t] = "setdim"
  /\ LET img == toCvCopy(local[t].in.msg)
         d == setFrameDimension(img.cols, img.rows)
     IN width' = d.width /\ height' = d.height
  /\ Goto(t, "initort", local[t].calls \o <<"setFrameDimension">>)
  /\ UNCHANGED <<initialized, initAttempts, initFail, initDone>>

\* ortAgent_.initORTSessionHandler(), which may raise.
c_initort(t) ==
  /\ pc[t] = "initort"
  /\ initAttempts' = initAttempts + 1
  /\ \E init_ok \in (IF initFail < MaxInitFail THEN BOOLEAN ELSE {TRUE}) :
       LET cs == local[t].calls \o <<"initORTSessionHandler">> IN
       IF init_ok
       THEN Goto(t, "setinit", cs) /\ UNCHANGED initFail
       ELSE /\ Finish(t, "threw", ConstructionFailure, ConstructionFailure, cs,
                      <<>>, NoError)
            /\ initFail' = initFail + 1
  /\ UNCHANGED <<session, initDone>>

\* ortAgent_.setInitBoolean(true)
c_setinit(t) ==
  /\ pc[t] = "setinit"
  /\ initialized' = TRUE
  /\ initDone' = initDone + 1
  /\ Goto(t, "dispatch", local[t].calls \o <<"setInitBoolean">>)
  /\ UNCHANGED <<width, height, initAttempts, initFail>>

\* The else branch: the dimension check against the locked dimensions.
c_checkdim(t) ==
  /\ pc[t] = "checkdim"
  /\ LET img == toCvCopy(local[t].in.msg) IN
     IF DimensionChanged(img.cols, img.rows)
     THEN Finish(t, "threw", NoError, RuntimeError, local[t].calls, <<>>, NoError)
     ELSE Goto(t, "dispatch", local[t].calls)
  /\ UNCHANGED <<session, initAttempts, initFail, initDone>>

\* The inference call and the publish that follows it.
c_dispatch(t) ==
  /\ pc[t] = "dispatch"
  /\ LET in == local[t].in
         img == toCvCopy(in.msg)
         cap == IF t = "image" THEN ImageCapability(precision_level, visualize)
                ELSE LocalizeCapability(visualize)
     IN \E infer_ok \in BOOLEAN :
          \E ret \in (IF infer_ok THEN Returns(cap) ELSE {NoError}),
             elapsed \in (IF infer_ok /\ ~visualize /\ t = "localize"
                          THEN ElapsedTimes ELSE {0}) :
            LET d == Dispatch(infer_ok,
                       IF t = "image"
                       THEN ImagePublish(precision_level, visualize, ret)
                       ELSE LocalizePublish(visualize, img, in.depth_msg,
                                            in.camera_info, ret, elapsed))
            IN Finish(t, d.outcome, d.raised, d.thrown,
                      local[t].calls \o <<cap>>, d.out, ret)
  /\ UNCHANGED <<session, initAttempts, initFail, initDone>>

NextConc ==
  \E t \in Routes :
    \/ c_begin(t)
    \/ c_check(t)
    \/ c_setdim(t)
    \/ c_initort(t)
    \/ c_setinit(t)
    \/ c_checkdim(t)
    \/ c_dispatch(t)

SpecConc == Init /\ [][NextConc]_vars

\* ------------------------------------------------------------------ claims
\* A callback has been delivered.
Ran == route # "none"
\* Session State was already initialized when the last callback started.
PreInitialized == initialized /\ Count(calls, "setInitBoolean") = 0
\* The last callback's frame is non-empty.
NonEmpty == input.msg.height # 0
\* The last callback passed both guards and its inference call returned.
Processed == Ran /\ outcome = "returned"

\* C1: after initialization, a non-empty frame whose width or height (either
\* one alone suffices) differs from the locked dimensions ends in the fatal
\* dimension-change error and is not passed to inference, on both routes.
C1_DimensionChangeIsFatal ==
  (Ran /\ PreInitialized /\ NonEmpty
     /\ (input.msg.width # width \/ input.msg.height # height))
  => (thrown = RuntimeError /\ InferCalls = <<>> /\ out = <<>>)

C4_EmptyFrameDiscarded ==
  [][ input'.msg.height = 0 =>
        /\ UNCHANGED session
        /\ outcome' = "discarded"
        /\ thrown' = NoError
        /\ calls' = <<>>
        /\ out' = <<>>
        /\ UNCHANGED <<initAttempts, initDone>> ]_vars

\* An empty tuple was discarded on the synchronized route after the session
\* had been initialized.
C4_Witness ==
  /\ route = "localize" /\ input.msg.height = 0 /\ outcome = "discarded"
  /\ initialized /\ input.msg.width # 0

\* C5: in localization mode only the synchronized callback is subscribed, in
\* any other mode only the single-stream callback is; never both.
C5_RouteExclusivity ==
  /\ (useCaseMode = LocalizationMode) => (sync_registered /\ ~image_sub)
  /\ (useCaseMode # LocalizationMode) => (image_sub /\ ~sync_registered)
  /\ ~(image_sub /\ sync_registered)

\* The channel the single-stream route is to publish on.
ExpectedImageChannel ==
  IF precision_level = 1 THEN "p1_pub"
  ELSE IF visualize THEN "visual_pub"
  ELSE IF precision_level = 2 THEN "p2_pub" ELSE "p3_pub"

\* C6: on the single-stream route a processed frame publishes only on the
\* tier-1 channel with tier 1 (whatever the visualize flag), only on the
\* annotated-image channel with tier 2 or 3 and visualize, and only on the
\* structured channel of its own tier with tier 2 or 3 and no visualize.
C6_TierRouting ==
  (Processed /\ route = "image") =>
    (out # <<>> /\ ChannelsOf(out) = {ExpectedImageChannel})

\* Tier 1 with the visualize flag set has processed a frame.
C6_Witness ==
  Processed /\ route = "image" /\ precision_level = 1 /\ visualize

\* The message is an annotated image on the annotated-image channel.
IsAnnotatedImage(m) ==
  /\ m.chan = "visual_pub"
  /\ m.image.encoding = "bgr8"
  /\ m.image.image \in ResultImgs

\* C7 as stated: with visualize set, for any tier and on either route, a
\* processed frame gives a single annotated image and no structured record.
C7_VisualizeAnyTier ==
  (Processed /\ visualize) => (Len(out) = 1 /\ IsAnnotatedImage(out[1]))

\* C7, amended: with visualize set, a processed frame gives a single
\* annotated image on the annotated-image channel and no structured record
\* on the synchronized route (any tier) and on the single-stream route with
\* tier 2 or 3; on the single-stream route with tier 1 the flag is ignored
\* and the frame gives a single label list on the tier-1 channel.
C7_VisualizeExceptTier1 ==
  (Processed /\ visualize) =>
    /\ Len(out) = 1
    /\ IF route = "image" /\ precision_level = 1
       THEN out[1].chan = "p1_pub" /\ out[1].object_names \in LabelLists
       ELSE IsAnnotatedImage(out[1])

\* The synchronized route has processed a tuple with visualize set and tier 1.
C7_Witness ==
  Processed /\ visualize /\ route = "localize" /\ precision_level = 1

\* C8: a callback that passes both guards and whose inference call returns
\* publishes exactly one message over all five channels.
C8_ExactlyOneMessage ==
  Processed => (Len(out) = 1 /\ out[1].chan \in Channels)

\* A structured tier-3 record has been published.
C8_Witness ==
  Processed /\ route = "image" /\ precision_level = 3 /\ ~visualize
    /\ Len(out) = 1 /\ out[1].chan = "p3_pub"

\* C9: nothing is published by a callback whose dispatch was skipped (empty
\* frame, fatal dimension change) or in which engine construction or the
\* inference call raised; the failure raised leaves the callback unchanged.
C9_NoPublishOnFailure ==
  /\ (Ran /\ outcome # "returned") => out = <<>>
  /\ thrown # NoError => outcome = "threw"
  /\ raised # NoError => thrown = raised

\* The inference call of the synchronized route raised.
C9_Witness ==
  route = "localize" /\ raised = InferenceFailure /\ thrown = InferenceFailure
    /\ out = <<>>

\* C10: the synchronized route invokes only the localization capability (the
\* visualize variant iff visualize) whatever the tier, and publishes only on
\* the annotated-image channel (visualize) or the localization channel; the
\* single-stream route never publishes on the localization channel.
C10_LocalizationRoute ==
  /\ route = "localize" =>
       /\ \A i \in DOMAIN InferCalls :
            InferCalls[i] = (IF visualize THEN "p3.infer_visualize/3"
                             ELSE "p3.infer_action/3")
       /\ ChannelsOf(out) \subseteq
            {IF visualize THEN "visual_pub" ELSE "localize_pub"}
       /\ Processed => (Len(InferCalls) = 1 /\ out # <<>>)
  /\ route = "image" => "localize_pub" \notin ChannelsOf(out)

\* The synchronized route has published a localization record with tier 1.
C10_Witness ==
  Processed /\ route = "localize" /\ precision_level = 1 /\ ~visualize
    /\ out[1].chan = "localize_pub"

\* A structured single-stream record went out in the last callback: tier 2
\* or 3 with the visualize flag off, inference returned.
Structured(level) ==
  Processed /\ route = "image" /\ ~visualize /\ precision_level = level

\* C11: every non-visualize tier-3 record carries as many masks, boxes,
\* scores and class indices as the inference result's data_size; every
\* non-visualize tier-2 record carries data_size class indices, scores and
\* boxes and an empty mask array.
C11_ParallelArrays ==
  /\ Structured(3) =>
        /\ Len(out[1].masks) = inferResult.data_size
        /\ Len(out[1].bboxes) = inferResult.data_size
        /\ Len(out[1].scores) = inferResult.data_size
        /\ Len(out[1].class_indices) = inferResult.data_size
  /\ Structured(2) =>
        /\ Len(out[1].bboxes) = inferResult.data_size
        /\ Len(out[1].scores) = inferResult.data_size
        /\ Len(out[1].class_indices) = inferResult.data_size
        /\ out[1].masks = <<>>

\* A tier-3 record for a result of two detections.
C11_Witness ==
  Structured(3) /\ inferResult.data_size = 2 /\ Len(out[1].masks) = 2

\* C12: in a tier-2 or tier-3 structured record the i-th region is the
\* i-th detection's corner box (x1, y1, x2, y2) as x_offset = x1,
\* y_offset = y1, width = x2 - x1, height = y2 - y1, do_rectify = false;
\* the corner box (10, 20, 50, 80) goes out as (10, 20, 40, 60).
C12_BoxConversion ==
  (Structured(2) \/ Structured(3)) =>
    /\ Len(out[1].bboxes) = Len(inferResult.bboxes)
    /\ \A i \in 1..Len(inferResult.bboxes) :
         LET b == inferResult.bboxes[i]
             r == out[1].bboxes[i]
         IN /\ r.x_offset = b[1]
            /\ r.y_offset = b[2]
            /\ r.width = b[3] - b[1]
            /\ r.height = b[4] - b[2]
            /\ r.do_rectify = FALSE
            /\ b = <<10, 20, 50, 80>> =>
                 r = [ x_offset |-> 10, y_offset |-> 20, width |-> 40,
                       height |-> 60, do_rectify |-> FALSE ]

\* A tier-2 record whose second region comes from the corner box
\* (10, 20, 50, 80), after a first region from another box.
C12_Witness ==
  /\ Structured(2)
  /\ inferResult.data_size = 2
  /\ inferResult.bboxes[2] = <<10, 20, 50, 80>>
  /\ inferResult.bboxes[1] # inferResult.bboxes[2]
  /\ out[1].bboxes[2].width = 40

\* The ortAgent_ calls of the initialization branch.
ConstructionCalls ==
  SelectSeq(calls, LAMBDA c : c \in {"setFrameDimension", "initORTSessionHandler",
                                      "setInitBoolean"})

Constructing(t) == pc[t] \in {"setdim", "initort", "setinit"}

\* C15: with the two callbacks running concurrently the engine is still
\* constructed exactly once: the two callbacks are never both inside the
\* initialization branch, and unless a construction failed there is never
\* a second initORTSessionHandler call.
C15_ConstructedOnceConcurrently ==
  /\ ~(Constructing("image") /\ Constructing("localize"))
  /\ initFail = 0 => initAttempts <= 1

\* C16: an inference capability is invoked only on a non-empty frame and
\* with Session State initialized, and the steps of a callback come in the
\* order guard, initialization / dimension check, dispatch, publish: an
\* empty frame reaches no ortAgent_ call; the one inference call is the last
\* call, after the construction calls (if any) or after a dimension check
\* that did not throw; and a message is published only after the inference
\* call has returned.
C16_GuardInitDispatchPublish ==
  /\ calls # <<>> => NonEmpty
  /\ InferCalls # <<>> =>
        /\ initialized
        /\ NonEmpty
        /\ Len(InferCalls) = 1
        /\ calls[Len(calls)] \in Capabilities
        /\ thrown \notin {RuntimeError, ConstructionFailure}
        /\ \/ calls = <<"setFrameDimension", "initORTSessionHandler",
                        "setInitBoolean">> \o InferCalls
           \/ /\ calls = InferCalls
              /\ ~DimensionChanged(input.msg.width, input.msg.height)
  /\ out # <<>> => (InferCalls # <<>> /\ outcome = "returned")

\* A first frame: constructed, then dispatched, then published.
C16_Witness ==
  /\ Len(calls) = 4 /\ calls[4] \in Capabilities
  /\ Len(out) = 1

\* C17: the callback that signals the fatal dimension-change error leaves
\* Session State as it was: initialized stays true, the locked width and
\* height keep their values, and nothing is constructed or resized.
C17_FatalErrorLeavesSessionState ==
  [][thrown' = RuntimeError =>
       /\ initialized /\ initialized'
       /\ width' = width /\ height' = height
       /\ initAttempts' = initAttempts /\ initDone' = initDone
       /\ Count(calls', "setFrameDimension") = 0]_vars

\* The fatal error signalled for a frame that differs from the locked
\* dimensions, which are still in place.
C17_Witness ==
  /\ thrown = RuntimeError /\ initialized
  /\ width # input.msg.width /\ height # input.msg.height
  /\ width = firstW /\ height = firstH

\* C18: initialized becomes true only in a callback whose
\* initORTSessionHandler call returned; a callback whose construction failed
\* leaves initialized false with the frame's dimensions already written;
\* and any non-empty frame delivered while initialized is false runs the
\* initialization branch, not the dimension check.
C18_InitializedOnlyAfterConstruction ==
  [][/\ raised' = ConstructionFailure =>
          /\ ~initialized'
          /\ width' = input'.msg.width /\ height' = input'.msg.height
          /\ Count(calls', "setInitBoolean") = 0
     /\ (~initialized /\ initialized') =>
          /\ raised' # ConstructionFailure
          /\ SelectSeq(calls', LAMBDA c : c \notin Capabilities)
               = <<"setFrameDimension", "initORTSessionHandler", "setInitBoolean">>
     /\ (~initialized /\ input'.msg.height # 0) =>
          /\ Count(calls', "initORTSessionHandler") = 1
          /\ thrown' # RuntimeError]_vars

\* A frame of other dimensions than the one whose construction failed runs
\* the initialization branch and is processed.
C18_Witness ==
  /\ initFail = 1 /\ initAttempts = 2 /\ initialized
  /\ Count(calls, "initORTSessionHandler") = 1
  /\ (input.msg.width # firstW /\ input.msg.height # firstH)
  /\ outcome = "returned"

\* C19: in every published localization record num_objects, the length of
\* objects and the length of roi_array all equal the result's data_size,
\* the i-th roi_array entry is the i-th object's roi, and frame_width and
\* frame_height are the dimensions of the frame of that same callback.
C19_LocalizationRecord ==
  \A k \in DOMAIN out :
    out[k].chan = "localize_pub" =>
      /\ route = "localize"
      /\ out[k].num_objects = inferResult.data_size
      /\ Len(out[k].objects) = inferResult.data_size
      /\ Len(out[k].roi_array) = inferResult.data_size
      /\ \A i \in 1..inferResult.data_size :
           /\ out[k].roi_array[i] = out[k].objects[i].roi
           /\ out[k].objects[i] = inferResult.objects[i]
      /\ out[k].frame_width = input.msg.width
      /\ out[k].frame_height = input.msg.height

\* A record of two objects for a frame whose height differs from the
\* locked height.
C19_Witness ==
  /\ Processed /\ route = "localize" /\ ~visualize
  /\ out[1].num_objects = 2 /\ Len(out[1].roi_array) = 2
  /\ out[1].frame_height # height
  /\ out[1].frame_height = input.msg.height
====
